---- MODULE Spec2Model ----
(***************************************************************************)
(* Two independent scripts of cleanlab-studio-tutorials:                   *)
(*   - test_notebooks.py: main() runs every notebook of a folder and       *)
(*     reports the failures to a Slack webhook            (SpecRunner)     *)
(*   - codex/other_rag_frameworks/tutorial_functions.py: stream_response() *)
(*     drives a streaming chat completion with tool calls (SpecChat)       *)
(* Texts are sequences of pieces (strings); the text is the concatenation  *)
(* of its pieces.                                                          *)
(***************************************************************************)
EXTENDS Integers, Sequences, FiniteSets, TLC

VARIABLES
    \* ---- test_notebooks.py, main() ----
    r_pc,              \* position in main: "loop", "report", "done"
    listing,           \* os.listdir(notebook_folder), evaluated once
    idx,               \* number of listing entries the for loop has consumed
    failed_notebooks,  \* the list of line 49
    posts,             \* texts passed to requests.post by send_slack_message
    printed,           \* lines printed by main and send_slack_message
    uncaught,          \* exception that left main, "none" if none
    attempted,         \* [name, outcome] of every try block entered, in order

    \* ---- tutorial_functions.py, stream_response() ----
    c_pc,              \* "call", "stream", "final", "returned", "raised"
    messages,          \* the message history list, shared by all recursive calls
    function_arguments, function_name, function_call_id,
    is_collecting_function_args, collected_messages,
    finish_reason,     \* of the last part read; None before the first part
    function_response, \* <<>> while unassigned
    result,            \* <<>>, or <<m>> once stream_response returned m
    exception,         \* exception that left stream_response, "none" if none
    requests,          \* client.chat.completions.create calls so far
    handler_calls,     \* calls of _handle_any_tool_call_for_stream_response
    tool_runs,         \* calls tool_function(**arguments) that were made
    stream,            \* the parts read from the current response_stream
    tool_call_requests,\* streams that finished with finish_reason "tool_calls"
    last_call          \* <<[name, args, outcome, response, today]>> of the
                       \* handler call made for the current stream, <<>> if
                       \* none; today is datetime.now() at that call

r_vars == <<r_pc, listing, idx, failed_notebooks, posts, printed, uncaught,
            attempted>>

c_locals == <<function_arguments, function_name, function_call_id,
              is_collecting_function_args, collected_messages, finish_reason,
              function_response>>

c_ghost == <<handler_calls, tool_runs, stream, tool_call_requests, last_call>>

c_vars == <<c_pc, messages, c_locals, result, exception, requests, c_ghost>>

vars == <<r_vars, c_vars>>

None == "None"

(***************************************************************************)
(* test_notebooks.py                                                       *)
(***************************************************************************)

\* Bound on the number of directory entries.
MaxFiles == 3

\* File names as pieces; the last piece is what str.endswith looks at.
FileNames ==
    { <<"a", ".ipynb">>, <<"b", ".ipynb">>, <<"notes", ".txt">>,
      <<"a", ".ipynb", "_output", ".ipynb">> }

NoDup(s) == \A i, j \in 1..Len(s) : s[i] = s[j] => i = j

RECURSIVE SeqsUpTo(_, _)
\* the sequences over S of length at most n
SeqsUpTo(S, n) ==
    IF n = 0 THEN { <<>> }
    ELSE LET shorter == SeqsUpTo(S, n - 1)
         IN  shorter \cup { Append(s, x) : s \in shorter, x \in S }

\* str.endswith(".ipynb")
EndsWithIpynb(name) == Len(name) > 0 /\ name[Len(name)] = ".ipynb"

\* The steps of the try block of lines 57-76, in order, and "ok".
Outcomes == { "ok", "patch_raised", "prepare_raised", "rename_raised",
              "execute_raised" }

\* What requests.post does: the status code of the response, or an exception.
PostResults == { "200", "500", "raises" }

RECURSIVE Join(_, _)
\* sep.join(names), as pieces
Join(names, sep) ==
    IF Len(names) = 0 THEN <<>>
    ELSE IF Len(names) = 1 THEN names[1]
    ELSE names[1] \o <<sep>> \o Join(Tail(names), sep)


(***************************************************************************)
(* codex/other_rag_frameworks/tutorial_functions.py                        *)
(***************************************************************************)

\* Bound on the completion requests of one conversation.
MaxRequests == 2
\* Bound on the parts of one response stream before its finishing part.
MaxParts == 3

\* Values of datetime.now() the model draws from.
Dates == { [year |-> 2025, month |-> 1, day |-> 5],
           [year |-> 1999, month |-> 12, day |-> 31] }

Digit(n) == <<"0", "1", "2", "3", "4", "5", "6", "7", "8", "9">>[n + 1]

RECURSIVE PadNoFill(_, _)
\* Pad without the leading zeros
PadNoFill(n, w) ==
    IF n < 10 THEN <<Digit(n)>>
    ELSE PadNoFill(n \div 10, w - 1) \o <<Digit(n % 10)>>

RECURSIVE Pad(_, _)
\* n in decimal, zero-padded to w digits
Pad(n, w) == IF w = 0 THEN <<>> ELSE Pad(n \div 10, w - 1) \o <<Digit(n % 10)>>

RECURSIVE strftime(_, _)
\* datetime.strftime for the directives %Y, %m and %d; any other piece of the
\* format is copied.
strftime(today, fmt) ==
    IF Len(fmt) = 0 THEN <<>>
    ELSE IF fmt[1] = "%" /\ Len(fmt) >= 2 /\ fmt[2] \in { "Y", "m", "d" }
    THEN (CASE fmt[2] = "Y" -> Pad(today.year, 4)
            [] fmt[2] = "m" -> Pad(today.month, 2)
            [] fmt[2] = "d" -> Pad(today.day, 2))
         \o strftime(today, SubSeq(fmt, 3, Len(fmt)))
    ELSE <<fmt[1]>> \o strftime(today, Tail(fmt))

\* today is what datetime.now() returns when the tool runs.
get_todays_date(today, date_format) == strftime(today, date_format)

\* The enum of todays_date_tool_json.
SupportedFormats ==
    { <<"%", "Y", "-", "%", "m", "-", "%", "d">>, <<"%", "d">>, <<"%", "m">>,
      <<"%", "Y">> }

\* Python values: [kind |-> "str", text], [kind |-> "num", text],
\* [kind |-> "dict", items |-> sequence of [key, value]], and
\* [kind |-> "object"], an instance json cannot serialize.
Str(text) == [kind |-> "str", text |-> text]
Num(text) == [kind |-> "num", text |-> text]
Dict(items) == [kind |-> "dict", items |-> items]

NumLits == { "3" }

IsStringLit(s) ==
    /\ Len(s) >= 2
    /\ s[1] = "\""
    /\ s[Len(s)] = "\""
    /\ \A i \in 2..(Len(s) - 1) : s[i] # "\""

IsNumLit(s) == Len(s) = 1 /\ s[1] \in NumLits

IsScalarLit(s) == IsStringLit(s) \/ IsNumLit(s)

ScalarOf(s) == IF IsNumLit(s) THEN Num(s) ELSE Str(SubSeq(s, 2, Len(s) - 1))

\* json.loads for a scalar or an object of at most one member with a scalar
\* value; ok = FALSE is JSONDecodeError.
json_loads(s) ==
    IF IsScalarLit(s) THEN [ok |-> TRUE, value |-> ScalarOf(s)]
    ELSE IF s = <<"{", "}">> THEN [ok |-> TRUE, value |-> Dict(<<>>)]
    ELSE IF /\ Len(s) >= 6
            /\ s[1] = "{"
            /\ s[Len(s)] = "}"
            /\ s[2] = "\""
            /\ \E j \in 3..(Len(s) - 3) :
                  /\ s[j] = "\""
                  /\ \A i \in 3..(j - 1) : s[i] # "\""
                  /\ s[j + 1] \in { ":", ": " }
                  /\ IsScalarLit(SubSeq(s, j + 2, Len(s) - 1))
    THEN LET j == CHOOSE j \in 3..(Len(s) - 3) :
                      s[j] = "\"" /\ \A i \in 3..(j - 1) : s[i] # "\""
         IN  [ok |-> TRUE,
              value |-> Dict(<<[key |-> SubSeq(s, 3, j - 1),
                                value |->
                                  ScalarOf(SubSeq(s, j + 2, Len(s) - 1))]>>)]
    ELSE [ok |-> FALSE, value |-> Num(<<>>)]

RECURSIVE json_dumps(_)
\* json.dumps; ok = FALSE is TypeError (not JSON serializable).
json_dumps(v) ==
    IF v.kind = "str" THEN [ok |-> TRUE, text |-> <<"\"">> \o v.text \o <<"\"">>]
    ELSE IF v.kind = "num" THEN [ok |-> TRUE, text |-> v.text]
    ELSE IF v.kind = "dict"
    THEN IF Len(v.items) = 0 THEN [ok |-> TRUE, text |-> <<"{", "}">>]
         ELSE LET head == json_dumps(v.items[1].value)
                  rest == json_dumps(Dict(Tail(v.items)))
              IN  [ok |-> head.ok /\ rest.ok,
                   text |-> <<"{", "\"">> \o v.items[1].key \o <<"\"", ": ">>
                            \o head.text
                            \o (IF Len(v.items) = 1 THEN <<>> ELSE <<", ">>)
                            \o Tail(rest.text)]
    ELSE [ok |-> FALSE, text |-> <<>>]

\* What a name is bound to in the module's globals: the def of line 6, the
\* class imported on line 2, the module imported on line 3, or nothing.
ModuleGlobals(name) ==
    CASE name = "get_todays_date" -> "function"
      [] name = "OpenAI" -> "class"
      [] name = "json" -> "module"
      [] OTHER -> "absent"

callable(kind) == kind \in { "function", "class" }

\* tool_function(**arguments): raised with the value returned otherwise.
CallTool(name, arguments, today) ==
    IF arguments.kind # "dict"
    THEN [raised |-> TRUE, value |-> Num(<<>>)]
    ELSE IF Len(arguments.items) # 1
    THEN [raised |-> TRUE, value |-> Num(<<>>)]
    ELSE LET key == arguments.items[1].key
             value == arguments.items[1].value
         IN  IF name = "get_todays_date"
             THEN IF key = <<"date_format">> /\ value.kind = "str"
                  THEN [raised |-> FALSE,
                        value |-> Str(get_todays_date(today, value.text))]
                  ELSE [raised |-> TRUE, value |-> Num(<<>>)]
             ELSE IF key = <<"api_key">> /\ value.kind = "str"
                  THEN [raised |-> FALSE, value |-> [kind |-> "object"]]
                  ELSE [raised |-> TRUE, value |-> Num(<<>>)]

NotFoundMessage(fname, arguments) ==
    json_dumps(Dict(<<
        [key |-> <<"error">>,
         value |-> Str(<<"Tool '", fname,
                         "' not found or not callable.">>)],
        [key |-> <<"arguments">>, value |-> arguments]>>)).text

ExceptionMessage(fname, arguments) ==
    json_dumps(Dict(<<
        [key |-> <<"error">>,
         value |-> Str(<<"Exception in handling tool '", fname,
                         "': ", "str(e)">>)],
        [key |-> <<"arguments">>, value |-> arguments]>>)).text

\* The path _handle_any_tool_call_for_stream_response takes: the else branch
\* of line 168, the except of line 173 (from the call or from json.dumps), or
\* the return of line 167.
ToolOutcome(fname, arguments, today) ==
    IF ~callable(ModuleGlobals(fname)) THEN "not_callable"
    ELSE LET call == CallTool(fname, arguments, today)
         IN  IF call.raised THEN "raised"
             ELSE IF ~json_dumps(call.value).ok THEN "unserializable"
             ELSE "ok"

\* _handle_any_tool_call_for_stream_response
HandleToolCall(fname, arguments, today) ==
    LET outcome == ToolOutcome(fname, arguments, today)
    IN  IF outcome = "ok"
        THEN json_dumps(CallTool(fname, arguments, today).value).text
        ELSE IF outcome = "not_callable"
        THEN NotFoundMessage(fname, arguments)
        ELSE ExceptionMessage(fname, arguments)

\* "error" in content
ContainsError(content) == \E i \in 1..Len(content) : content[i] = "error"

simulate_response_as_message(response) ==
    [role |-> "assistant", content |-> response]

simulate_tool_call_as_message(tool_call_id, name, arguments) ==
    [role |-> "assistant",
     tool_calls |-> <<[id |-> tool_call_id, type |-> "function",
                       function |-> [arguments |-> arguments,
                                     name |-> name]]>>]

simulate_tool_call_response_as_message(tool_call_id, response) ==
    [role |-> "tool", content |-> response, tool_call_id |-> tool_call_id]

\* JoinNotNone without the filter of line 149
JoinKeepingNone(chunks) == chunks

RECURSIVE JoinNotNone(_)
\* "".join(m for m in collected_messages if m is not None)
JoinNotNone(chunks) ==
    IF Len(chunks) = 0 THEN <<>>
    ELSE (IF chunks[1] = None THEN <<>> ELSE <<chunks[1]>>)
         \o JoinNotNone(Tail(chunks))

\* ---- what the completion service may stream ----
ToolCallIds == { "call_1", "call_2" }
ToolNames == { "get_todays_date", "OpenAI", "json", "no_such_tool" }
TextChunks == { None, "Hi", "there" }
ArgKeys == { "date_format", "api_key" }
ArgLiterals ==
    { <<"\"">> \o f \o <<"\"">> : f \in SupportedFormats \cup { <<"error">> } }
    \cup { <<n>> : n \in NumLits }
\* The argument text arrives in fragments: an opening one up to the colon and
\* a closing one from the value on.
Fragments ==
    { <<"{", "\"", k, "\"", ":">> : k \in ArgKeys } \cup
    { v \o <<"}">> : v \in ArgLiterals }

Delta(tool_calls, content, reason) ==
    [tool_calls |-> tool_calls, content |-> content, finish_reason |-> reason]

\* Parts of a stream: text deltas, the first delta of a tool call (id and
\* name, empty arguments), argument deltas, and the finishing part, which has
\* an empty delta and the only finish_reason that is not None.
TextParts == { Delta(<<>>, c, None) : c \in TextChunks }
HeaderParts ==
    { Delta(<<[id |-> i, name |-> n, arguments |-> <<>>]>>, None, None) :
        i \in ToolCallIds, n \in ToolNames }
ArgumentParts ==
    { Delta(<<[id |-> None, name |-> None, arguments |-> f]>>, None, None) :
        f \in Fragments }
FinishParts == { Delta(<<>>, None, r) : r \in { "stop", "length", "tool_calls" } }
Parts == TextParts \cup HeaderParts \cup ArgumentParts \cup FinishParts

\* The order of the parts of one response: text deltas, then at most one tool
\* call (parallel_tool_calls=False) as a first delta followed by argument
\* deltas, then the finishing part; finish_reason "tool_calls" only closes a
\* response that carried a tool call.
ToolDeltaSeen(sofar) == \E i \in 1..Len(sofar) : sofar[i].tool_calls # <<>>

ServiceMaySend(sofar, part) ==
    /\ part \in TextParts \cup HeaderParts => ~ToolDeltaSeen(sofar)
    /\ part \in ArgumentParts => ToolDeltaSeen(sofar)
    /\ part.finish_reason = "tool_calls" => ToolDeltaSeen(sofar)
    /\ part.finish_reason = None => Len(sofar) < MaxParts

\* The history rag() builds, lines 36-39.
InitialMessages ==
    <<[role |-> "system", content |-> <<"system_prompt">>],
      [role |-> "user", content |-> <<"question_with_context">>]>>

\* main() of test_notebooks.py is not running.
RunnerIdle ==
    /\ r_pc = "done"
    /\ listing = <<>>
    /\ idx = 0
    /\ failed_notebooks = <<>>
    /\ posts = <<>>
    /\ printed = <<>>
    /\ uncaught = "none"
    /\ attempted = <<>>

\* stream_response is called by rag().
ChatInit ==
    /\ RunnerIdle
    /\ c_pc = "call"
    /\ messages = InitialMessages
    /\ function_arguments = <<>>
    /\ function_name = ""
    /\ function_call_id = ""
    /\ is_collecting_function_args = FALSE
    /\ collected_messages = <<>>
    /\ finish_reason = None
    /\ function_response = <<>>
    /\ result = <<>>
    /\ exception = "none"
    /\ requests = 0
    /\ handler_calls = 0
    /\ tool_runs = 0
    /\ stream = <<>>
    /\ tool_call_requests = 0
    /\ last_call = <<>>

\* Lines 94-106: the completion request and the locals of this call.
CreateCompletion ==
    /\ c_pc = "call"
    /\ requests < MaxRequests
    /\ requests' = requests + 1
    /\ function_arguments' = <<>>
    /\ function_name' = ""
    /\ function_call_id' = ""
    /\ is_collecting_function_args' = FALSE
    /\ collected_messages' = <<>>
    /\ finish_reason' = None
    /\ function_response' = <<>>
    /\ stream' = <<>>
    /\ last_call' = <<>>
    /\ c_pc' = "stream"
    /\ UNCHANGED <<messages, result, exception, handler_calls, tool_runs,
                   tool_call_requests, r_vars>>

\* function_arguments after a tool-call delta, line 124
CollectArguments(collected, fragment) == collected \o fragment

\* One iteration of the for loop of lines 108-130 on the next part of the
\* stream; today is datetime.now() should the tool read it.
ReadPart(part, today) ==
    /\ c_pc = "stream"
    /\ ServiceMaySend(stream, part)
    /\ stream' = Append(stream, part)
    /\ tool_call_requests' =
         IF part.finish_reason = "tool_calls" THEN tool_call_requests + 1
         ELSE tool_call_requests
    /\ finish_reason' = part.finish_reason
    /\ IF part.tool_calls = <<>>
       THEN /\ collected_messages' = Append(collected_messages, part.content)
            /\ UNCHANGED <<function_call_id, function_name,
                           function_arguments>>
       ELSE LET tool_call == part.tool_calls[1]
            IN  /\ function_call_id' =
                     IF tool_call.id # None THEN tool_call.id
                     ELSE function_call_id
                /\ function_name' =
                     IF tool_call.name # None THEN tool_call.name
                     ELSE function_name
                /\ function_arguments' =
                     IF Len(tool_call.arguments) > 0
                     THEN CollectArguments(function_arguments,
                                           tool_call.arguments)
                     ELSE function_arguments
                /\ UNCHANGED collected_messages
    /\ LET collecting == part.tool_calls # <<>> \/ is_collecting_function_args
       IN  IF part.finish_reason = "tool_calls" /\ collecting
           THEN LET args == json_loads(function_arguments')
                IN  IF args.ok
                    THEN /\ function_response' =
                              HandleToolCall(function_name', args.value, today)
                         /\ handler_calls' = handler_calls + 1
                         /\ tool_runs' =
                              IF callable(ModuleGlobals(function_name'))
                              THEN tool_runs + 1 ELSE tool_runs
                         /\ last_call' =
                              <<[name |-> function_name', args |-> args.value,
                                 outcome |-> ToolOutcome(function_name',
                                                         args.value, today),
                                 response |-> function_response',
                                 today |-> today]>>
                         /\ is_collecting_function_args' = FALSE
                         /\ c_pc' = "final"
                         /\ UNCHANGED exception
                    ELSE /\ exception' = "JSONDecodeError"
                         /\ c_pc' = "raised"
                         /\ is_collecting_function_args' = collecting
                         /\ UNCHANGED <<function_response, handler_calls,
                                        tool_runs, last_call>>
           ELSE /\ is_collecting_function_args' = collecting
                /\ c_pc' = IF part.finish_reason = None THEN "stream"
                           ELSE "final"
                /\ UNCHANGED <<function_response, handler_calls, tool_runs,
                               last_call, exception>>
    /\ UNCHANGED <<messages, result, requests, r_vars>>

\* Lines 132-153, after the stream is exhausted.  A recursive call returns
\* what the innermost call returns, so going back to "call" is the recursion.
Finalize ==
    /\ c_pc = "final"
    /\ IF finish_reason = "tool_calls"
       THEN LET tool_call_response_message ==
                    simulate_tool_call_response_as_message(function_call_id,
                                                           function_response)
            IN  IF ContainsError(tool_call_response_message.content)
                THEN /\ result' = <<tool_call_response_message>>
                     /\ c_pc' = "returned"
                     /\ UNCHANGED messages
                ELSE /\ messages' = messages \o
                          <<simulate_tool_call_as_message(function_call_id,
                                function_name, function_arguments),
                            tool_call_response_message>>
                     /\ c_pc' = "call"
                     /\ UNCHANGED result
       ELSE /\ result' = <<simulate_response_as_message(
                               JoinNotNone(collected_messages))>>
            /\ c_pc' = "returned"
            /\ UNCHANGED messages
    /\ UNCHANGED <<c_locals, exception, requests, c_ghost, r_vars>>

ChatNext ==
    \/ CreateCompletion
    \/ \E part \in Parts, today \in Dates : ReadPart(part, today)
    \/ Finalize

SpecChat == ChatInit /\ [][ChatNext]_vars

\* stream_response is not running.
ChatIdle ==
    /\ c_pc = "returned"
    /\ messages = <<>>
    /\ function_arguments = <<>>
    /\ function_name = ""
    /\ function_call_id = ""
    /\ is_collecting_function_args = FALSE
    /\ collected_messages = <<>>
    /\ finish_reason = None
    /\ function_response = <<>>
    /\ result = <<>>
    /\ exception = "none"
    /\ requests = 0
    /\ handler_calls = 0
    /\ tool_runs = 0
    /\ stream = <<>>
    /\ tool_call_requests = 0
    /\ last_call = <<>>

RunnerInit ==
    /\ r_pc = "loop"
    /\ listing \in { s \in SeqsUpTo(FileNames, MaxFiles) : NoDup(s) }
    /\ idx = 0
    /\ failed_notebooks = <<>>
    /\ posts = <<>>
    /\ printed = <<>>
    /\ uncaught = "none"
    /\ attempted = <<>>
    /\ ChatIdle

\* ProcessEntry with the append of line 78 moved out of the except clause
ProcessEntryAppendsAlways(outcome) ==
    /\ r_pc = "loop"
    /\ idx < Len(listing)
    /\ LET notebook_name == listing[idx + 1]
       IN  IF EndsWithIpynb(notebook_name)
           THEN /\ attempted' = Append(attempted, [name |-> notebook_name,
                                                    outcome |-> outcome])
                /\ failed_notebooks' = Append(failed_notebooks, notebook_name)
           ELSE /\ outcome = "ok"
                /\ UNCHANGED <<attempted, failed_notebooks>>
    /\ idx' = idx + 1
    /\ UNCHANGED <<r_pc, listing, posts, printed, uncaught, c_vars>>

\* One iteration of the for loop of lines 52-81.
ProcessEntry(outcome) ==
    /\ r_pc = "loop"
    /\ idx < Len(listing)
    /\ LET notebook_name == listing[idx + 1]
       IN  IF EndsWithIpynb(notebook_name)
           THEN /\ attempted' = Append(attempted, [name |-> notebook_name,
                                                    outcome |-> outcome])
                /\ IF outcome # "ok"
                   THEN failed_notebooks' =
                            Append(failed_notebooks, notebook_name)
                   ELSE UNCHANGED failed_notebooks
           ELSE /\ outcome = "ok"
                /\ UNCHANGED <<attempted, failed_notebooks>>
    /\ idx' = idx + 1
    /\ UNCHANGED <<r_pc, listing, posts, printed, uncaught, c_vars>>

\* The for loop is exhausted.
LoopExit ==
    /\ r_pc = "loop"
    /\ idx = Len(listing)
    /\ r_pc' = "report"
    /\ UNCHANGED <<listing, idx, failed_notebooks, posts, printed, uncaught,
                   attempted, c_vars>>

\* Report with send_slack_message called before the test of line 84
ReportAlwaysPosts(post) ==
    /\ r_pc = "report"
    /\ r_pc' = "done"
    /\ posts' = Append(posts, <<"The following notebooks failed: ">> \o
                               Join(failed_notebooks, ", "))
    /\ IF post = "raises"
       THEN /\ uncaught' = "RequestException"
            /\ UNCHANGED printed
       ELSE /\ uncaught' = IF Len(failed_notebooks) > 0 THEN "none"
                           ELSE "AttributeError"
            /\ printed' = <<IF post = "200"
                            THEN <<"Message sent successfully!">>
                            ELSE <<"Failed to send message.">>>> \o
                          failed_notebooks
    /\ UNCHANGED <<listing, idx, failed_notebooks, attempted, c_vars>>

\* Lines 83-92 with send_slack_message (lines 10-19) inlined.  post is what
\* requests.post does: a status code, or "raises" (no URL, no connection).
\* Line 91 evaluates datetime.now() where datetime is the module of line 6,
\* which has no attribute now: AttributeError.
Report(post) ==
    /\ r_pc = "report"
    /\ r_pc' = "done"
    /\ IF Len(failed_notebooks) > 0
       THEN LET message == <<"The following notebooks failed: ">> \o
                           Join(failed_notebooks, ", ")
            IN  /\ posts' = Append(posts, message)
                /\ IF post = "raises"
                   THEN /\ uncaught' = "RequestException"
                        /\ UNCHANGED printed
                   ELSE /\ uncaught' = "none"
                        /\ printed' =
                             <<IF post = "200"
                               THEN <<"Message sent successfully!">>
                               ELSE <<"Failed to send message.">>>> \o
                             failed_notebooks
       ELSE /\ post = "200"
            /\ uncaught' = "AttributeError"
            /\ UNCHANGED <<posts, printed>>
    /\ UNCHANGED <<listing, idx, failed_notebooks, attempted, c_vars>>

RunnerNext ==
    \/ \E outcome \in Outcomes : ProcessEntry(outcome)
    \/ LoopExit
    \/ \E post \in PostResults : Report(post)

SpecRunner == RunnerInit /\ [][RunnerNext]_vars

(***************************************************************************)
(* Properties of main() of test_notebooks.py, stated for SpecRunner        *)
(***************************************************************************)

\* name occurs in text as a run of consecutive pieces
Occurs(name, text) ==
    \E k \in 0..(Len(text) - Len(name)) :
        SubSeq(text, k + 1, k + Len(name)) = name

\* s is t with some entries left out
RECURSIVE IsSubsequence(_, _)
IsSubsequence(s, t) ==
    IF Len(s) = 0 THEN TRUE
    ELSE IF Len(t) = 0 THEN FALSE
    ELSE IF s[1] = t[1] THEN IsSubsequence(Tail(s), Tail(t))
    ELSE IsSubsequence(s, Tail(t))

AttemptOf(name) == { i \in 1..Len(attempted) : attempted[i].name = name }

\* C3: once main has iterated the folder, failed_notebooks holds exactly the
\* .ipynb entries whose try block raised: each once, in enumeration order, and
\* neither a notebook that ran through nor a file that is no notebook.
C3_FailedExactlyTheRaised ==
    r_pc \in { "report", "done" } =>
        /\ NoDup(failed_notebooks)
        /\ IsSubsequence(failed_notebooks, listing)
        /\ \A i \in 1..Len(listing) :
              LET name == listing[i]
                  in_failed == \E k \in 1..Len(failed_notebooks) :
                                   failed_notebooks[k] = name
              IN  in_failed <=>
                      /\ name[Len(name)] = ".ipynb"
                      /\ \E a \in AttemptOf(name) : attempted[a].outcome # "ok"

C3_Witness ==
    /\ r_pc = "done"
    /\ Len(listing) = 3
    /\ Len(failed_notebooks) = 1
    /\ Len(attempted) = 2
    /\ failed_notebooks[1] = listing[3]

\* C4: a webhook message is posted if and only if a notebook failed: never
\* more than one, only after the whole folder was processed, and its text
\* lists every failed notebook; none when failed_notebooks is empty.
C4_PostIffFailure ==
    /\ Len(posts) <= 1
    /\ Len(posts) = 1 =>
          /\ r_pc = "done"
          /\ idx = Len(listing)
          /\ Len(failed_notebooks) > 0
          /\ \A k \in 1..Len(failed_notebooks) :
                Occurs(failed_notebooks[k], posts[1])
    /\ r_pc = "done" => (Len(posts) = 1 <=> Len(failed_notebooks) > 0)

C4_Witness ==
    /\ r_pc = "done"
    /\ Len(posts) = 1
    /\ Len(failed_notebooks) = 2
    /\ Len(attempted) = 3

\* C5: nothing ends the run early: every .ipynb entry is attempted whatever
\* failed before it, and main reaches its final report and ends without an
\* uncaught exception.
C5_NoProcessEndingCondition ==
    r_pc = "done" =>
        /\ \A i \in 1..Len(listing) :
              listing[i][Len(listing[i])] = ".ipynb" =>
                  AttemptOf(listing[i]) # {}
        /\ uncaught = "none"
        /\ Len(printed) > 0 \/ Len(posts) > 0

\* The part of C5 the code keeps: a failure does not stop the loop.
C5_EveryNotebookAttempted ==
    r_pc \in { "report", "done" } =>
        \A i \in 1..Len(listing) :
            listing[i][Len(listing[i])] = ".ipynb" => AttemptOf(listing[i]) # {}

(***************************************************************************)
(* Properties of stream_response(), stated for SpecChat                    *)
(***************************************************************************)

\* positions of the text deltas of the stream that carry a chunk
TextPositions ==
    { i \in 1..Len(stream) :
        stream[i].tool_calls = <<>> /\ stream[i].content # None }

\* positions of the tool-call deltas of the stream that carry arguments
ArgumentPositions ==
    { i \in 1..Len(stream) :
        stream[i].tool_calls # <<>>
        /\ Len(stream[i].tool_calls[1].arguments) > 0 }

\* the k-th smallest member of a set of positions
Nth(P, k) == CHOOSE i \in P : Cardinality({ j \in P : j <= i }) = k

RECURSIVE Flatten(_)
Flatten(ss) == IF Len(ss) = 0 THEN <<>> ELSE ss[1] \o Flatten(Tail(ss))

\* the argument fragments of the stream in arrival order, concatenated
StreamedArguments ==
    Flatten([k \in 1..Cardinality(ArgumentPositions) |->
                stream[Nth(ArgumentPositions, k)].tool_calls[1].arguments])

IsErrorResult(m, fname) ==
    /\ m.role = "tool"
    /\ Occurs(<<"\"", "error", "\"">>, m.content)
    /\ Occurs(<<fname>>, m.content)

EndsWithToolRound ==
    /\ Len(messages) >= 2
    /\ messages[Len(messages) - 1] =
           simulate_tool_call_as_message(function_call_id, function_name,
                                         function_arguments)
    /\ messages[Len(messages)] =
           [role |-> "tool", content |-> function_response,
            tool_call_id |-> function_call_id]

\* C1: a tool call that names something undefined or not callable makes
\* stream_response return the tool message whose content has an "error"
\* field naming the tool, and no further completion request is made.
C1_UnknownToolReturnsError ==
    (/\ finish_reason = "tool_calls"
     /\ ~callable(ModuleGlobals(function_name))
     /\ c_pc # "final")
    => /\ c_pc = "returned"
       /\ Len(result) = 1
       /\ IsErrorResult(result[1], function_name)

\* The part of C1 the code keeps: it holds of the tool calls whose
\* arguments text json.loads accepts.
C1_UnknownToolWithDecodedArguments ==
    (/\ finish_reason = "tool_calls"
     /\ ~callable(ModuleGlobals(function_name))
     /\ Len(last_call) = 1
     /\ c_pc # "final")
    => /\ c_pc = "returned"
       /\ Len(result) = 1
       /\ IsErrorResult(result[1], function_name)

\* C2: when the service never requests a tool call, stream_response makes
\* exactly one completion request, invokes no tool and returns the assistant
\* message whose content is the non-null text chunks in arrival order.
C2_TextAnswerAfterOneRequest ==
    (tool_call_requests = 0 /\ finish_reason # None) =>
        /\ requests = 1
        /\ handler_calls = 0
        /\ tool_runs = 0
        /\ exception = "none"
        /\ c_pc \in { "final", "returned" }
        /\ c_pc = "returned" =>
              /\ Len(result) = 1
              /\ result[1].role = "assistant"
              /\ DOMAIN result[1] = { "role", "content" }
              /\ Len(result[1].content) = Cardinality(TextPositions)
              /\ \A k \in 1..Cardinality(TextPositions) :
                    result[1].content[k] = stream[Nth(TextPositions, k)].content

C2_Witness ==
    /\ c_pc = "returned"
    /\ tool_call_requests = 0
    /\ Len(stream) = 4
    /\ Len(result) = 1
    /\ result[1].content = <<"Hi", "there">>

\* the pieces of a date of Dates under %Y, %m and %d
Rendered(today) ==
    IF today.year = 2025
    THEN [Y |-> <<"2", "0", "2", "5">>, m |-> <<"0", "1">>, d |-> <<"0", "5">>]
    ELSE [Y |-> <<"1", "9", "9", "9">>, m |-> <<"1", "2">>, d |-> <<"3", "1">>]

ExpectedDate(today, fmt) ==
    LET r == Rendered(today)
    IN  CASE fmt = <<"%", "Y", "-", "%", "m", "-", "%", "d">> ->
                 r.Y \o <<"-">> \o r.m \o <<"-">> \o r.d
          [] fmt = <<"%", "d">> -> r.d
          [] fmt = <<"%", "m">> -> r.m
          [] fmt = <<"%", "Y">> -> r.Y

IsDateCall(call, fmt) ==
    /\ call.name = "get_todays_date"
    /\ call.args = Dict(<<[key |-> <<"date_format">>, value |-> Str(fmt)]>>)

\* C6: for each of the four supported formats get_todays_date returns the
\* current date in that format (full date, day, month, year), and a tool call
\* for it with one of these formats is dispatched to it and yields a tool
\* result that is not an error: the round is appended and resubmitted.
C6_DateToolFourFormats ==
    \A fmt \in SupportedFormats :
        (Len(last_call) = 1 /\ IsDateCall(last_call[1], fmt)) =>
            /\ last_call[1].outcome = "ok"
            /\ function_response =
                   <<"\"">> \o ExpectedDate(last_call[1].today, fmt)
                   \o <<"\"">>
            /\ c_pc \in { "final", "call" }
            /\ c_pc = "call" => EndsWithToolRound

C6_Witness ==
    /\ c_pc = "call"
    /\ Len(last_call) = 1
    /\ IsDateCall(last_call[1], <<"%", "Y", "-", "%", "m", "-", "%", "d">>)
    /\ function_response =
           <<"\"", "2", "0", "2", "5", "-", "0", "1", "-", "0", "5", "\"">>
    /\ last_call[1].today.year = 2025
    /\ Len(messages) = 4

ToolSucceeded == Len(last_call) = 1 /\ last_call[1].outcome = "ok"

\* C7: stream_response stops without resubmitting only after a plain text
\* answer or a failed tool invocation; after a tool invocation that
\* succeeded, whatever it returned, the call and its result are appended and
\* the history is resubmitted.
C7_StopsOnlyOnTextOrToolFailure ==
    /\ c_pc = "returned" => (finish_reason # "tool_calls" \/ ~ToolSucceeded)
    /\ (finish_reason = "tool_calls" /\ ToolSucceeded /\ c_pc # "final") =>
           (c_pc = "call" /\ EndsWithToolRound)

\* C8: the history is append-only: a step never removes or alters a message;
\* a successful tool round appends exactly the assistant tool-call message
\* and then the tool-result message with the same tool_call_id; any other
\* step, a round ending in a tool error or a text answer included, appends
\* nothing.
C8_HistoryAppendOnly ==
    [][ /\ Len(messages') >= Len(messages)
        /\ SubSeq(messages', 1, Len(messages)) = messages
        /\ IF c_pc = "final" /\ finish_reason = "tool_calls" /\ ToolSucceeded
           THEN /\ Len(messages') = Len(messages) + 2
                /\ messages'[Len(messages) + 1].role = "assistant"
                /\ messages'[Len(messages) + 1].tool_calls[1].id =
                       function_call_id
                /\ messages'[Len(messages) + 2].role = "tool"
                /\ messages'[Len(messages) + 2].tool_call_id =
                       messages'[Len(messages) + 1].tool_calls[1].id
           ELSE messages' = messages ]_vars

\* The part of C8 the code keeps: every step leaves the history or appends
\* one tool-call message and the tool result with the same tool_call_id.
C8_AppendsWholeRounds ==
    [][ \/ messages' = messages
        \/ /\ c_pc = "final"
           /\ Len(messages') = Len(messages) + 2
           /\ SubSeq(messages', 1, Len(messages)) = messages
           /\ messages'[Len(messages) + 1].role = "assistant"
           /\ messages'[Len(messages) + 2].role = "tool"
           /\ messages'[Len(messages) + 2].tool_call_id =
                  messages'[Len(messages) + 1].tool_calls[1].id ]_vars

\* C9: every failure in carrying out a requested tool call (unknown or
\* non-callable name, arguments the tool cannot be called with, arguments
\* text that cannot be decoded, an exception in the tool, an output that
\* cannot be serialized) becomes an error message that stream_response
\* returns; none leaves stream_response as an exception.
C9_ToolFailuresBecomeMessages ==
    /\ exception = "none"
    /\ c_pc # "raised"
    /\ (finish_reason = "tool_calls" /\ ~ToolSucceeded /\ c_pc # "final") =>
           /\ c_pc = "returned"
           /\ Len(result) = 1
           /\ IsErrorResult(result[1], function_name)

\* The part of C9 the code keeps: once the handler is entered, whatever goes
\* wrong in it comes back as an error message.
C9_HandlerFailuresBecomeMessages ==
    (/\ finish_reason = "tool_calls"
     /\ Len(last_call) = 1
     /\ last_call[1].outcome # "ok"
     /\ c_pc # "final")
    => /\ c_pc = "returned"
       /\ exception = "none"
       /\ Len(result) = 1
       /\ IsErrorResult(result[1], function_name)

\* C10: a stream that ends with finish_reason "tool_calls" has the tool
\* handler invoked exactly once, on the arguments decoded from the streamed
\* fragments concatenated in arrival order, and the tool-result message
\* carries the output of that invocation; so a conversation that returned
\* made one request more than invocations if it ended with a text answer and
\* as many if it ended with a tool error.
C10_OneInvocationPerToolCallStream ==
    /\ handler_calls = tool_call_requests
    /\ finish_reason = "tool_calls" =>
          /\ Len(last_call) = 1
          /\ json_loads(StreamedArguments).ok
          /\ last_call[1].args = json_loads(StreamedArguments).value
          /\ function_response = last_call[1].response
    /\ c_pc = "returned" =>
          requests = handler_calls +
                     (IF result[1].role = "assistant" THEN 1 ELSE 0)

\* The part of C10 the code keeps: a handler call is made on the arguments
\* decoded from the fragments in arrival order, at most once a stream, and a
\* conversation that returned counts its requests as C10 says.
C10_WhenArgumentsDecode ==
    /\ handler_calls <= tool_call_requests
    /\ Len(last_call) = 1 =>
          /\ finish_reason = "tool_calls"
          /\ last_call[1].args = json_loads(StreamedArguments).value
          /\ function_response = last_call[1].response
    /\ c_pc = "returned" =>
          /\ handler_calls = tool_call_requests
          /\ requests = handler_calls +
                        (IF result[1].role = "assistant" THEN 1 ELSE 0)

====
